---- MODULE Spec2Model ----
(***************************************************************************)
(* Coverage metrics over ONE-simulator event logs.                         *)
(*                                                                         *)
(* Three scripts read the same kind of log:                                *)
(*   prog = "plain"    src/RESULT.py lines 1-216   (script "81")           *)
(*   prog = "pandas"   src/RESULT.py lines 218-493 ("Result Output.py")    *)
(*   prog = "sainaosi" src/output/sainaosi.py                              *)
(* A log line is its whitespace-split token sequence; the first token is   *)
(* the time.  Times are integers: BIN_SECONDS is scaled from 3600 to 2 so  *)
(* that every bin has an interior point and two edges, and TOTAL_HOURS     *)
(* from 12 to 2.  Rates are exact fractions num/den; den = 0 marks NaN.    *)
(***************************************************************************)
EXTENDS Integers, Sequences, FiniteSets, TLC

VARIABLES prog, log, pc, events, df, files, nodes_all, N, rows, low

vars == <<prog, log, pc, events, df, files, nodes_all, N, rows, low>>

\* 3600 in the scripts; 2 leaves each bin an interior point and two edges
BIN_SECONDS == 2
\* 12 in the scripts (43200 / 3600 in sainaosi.py)
TOTAL_HOURS == 2
\* max_id = 24 in the call of calculate_high
MAX_ID == 2
\* the longest input log
MaxLog == 3

None == "None"

EXCLUDE_BOX == TRUE
EXCLUDE_DO == TRUE
EXCLUDE_BOX_IN_DENOM == TRUE

(***************************************************************************)
(* Names.  String predicates are tabulated over the names of the model.    *)
(***************************************************************************)
NodeNames == {"p1", "q1", "box1", "do1"}

\* str(name).lower().startswith("box")
is_box(name) == name # None /\ name \in {"box1"}

\* str(name).lower().startswith("do")
is_do(name) == name # None /\ name \in {"do1"}

\* str(mid).lower().startswith("m_h")
is_high_id(mid) == mid # None /\ mid \in {"M_Hp1", "M_Hp2"}

\* str(mid).lower().startswith("m_l")
is_low_id(mid) == mid # None /\ mid \in {"M_L1", "M_L2"}

\* re ^box\d+$ , ignoring case
BOX_RE(name) == name \in {"box1"}

\* re ^M_H , ignoring case
ID_HIGH_RE(mid) == mid \in {"M_Hp1", "M_Hp2"}

\* re ^M_L , ignoring case
ID_LOW_RE(mid) == mid \in {"M_L1", "M_L2"}

ClusterNames == <<"p", "q", "r">>

\* ^p\d+$ , ^q\d+$ , ^r\d+$ , ignoring case
CLUSTER_REGEX(c, n) ==
    \/ c = "p" /\ n \in {"p1"}
    \/ c = "q" /\ n \in {"q1"}
    \/ c = "r" /\ n \in {}

\* the ids of the model in natural order (head, trailing number)
IdOrder == <<"M_Hp1", "M_Hp2", "M_L1", "M_L2">>

natural_sort_ids(ids) == SelectSeq(IdOrder, LAMBDA x : x \in ids)

(***************************************************************************)
(* Rates                                                                   *)
(***************************************************************************)
Frac(n, d) == [num |-> n, den |-> d]
NaN == [num |-> 0, den |-> 0]
Zero == [num |-> 0, den |-> 1]
IsNaN(r) == r.den = 0
IsZero(r) == r.den > 0 /\ r.num = 0
InRange(r) == r.den > 0 /\ 0 <= r.num /\ r.num <= 100 * r.den
SameRate(a, b) == IF a.den = 0 \/ b.den = 0 THEN a.den = b.den
                  ELSE a.num * b.den = b.num * a.den
AddRate(a, b) == IF a.den = 0 \/ b.den = 0 THEN NaN
                 ELSE Frac(a.num * b.den + b.num * a.den, a.den * b.den)

\* Python round(x): nearest integer, ties to even
Round(r) ==
    LET q == r.num \div r.den
        m == r.num % r.den
    IN  IF 2 * m > r.den THEN Frac(q + 1, 1)
        ELSE IF 2 * m < r.den THEN Frac(q, 1)
        ELSE IF q % 2 = 0 THEN Frac(q, 1) ELSE Frac(q + 1, 1)

\* Python round(x, 1): one decimal, ties to even
Round1(r) == Frac(Round(Frac(10 * r.num, r.den)).num, 10)

(***************************************************************************)
(* An emitted row of an hourly high-priority table.  counted, reached and  *)
(* sel are history fields: the destinations n_hour counts, the seen set    *)
(* after the bin, and the (time, dst) of the events the bin selected.      *)
(***************************************************************************)
Row(fn, mid, h, c, n, cnt, rate, cum, seen, sel) ==
    [fn |-> fn, Id |-> mid, hour_index |-> h, Cluster |-> c, N |-> n,
     n_hour |-> Cardinality(cnt), rate_hour |-> rate, cum_rate |-> cum,
     counted |-> cnt, reached |-> seen, sel |-> sel]

Picked(s) == {[time |-> s[i].time, dst |-> s[i].dst] : i \in DOMAIN s}

(***************************************************************************)
(* prog = "plain": src/RESULT.py, the script of lines 1-216                *)
(***************************************************************************)
\* one line of the reading loop: the events it appends
ParseLine(parts) ==
    LET typ == IF Len(parts) > 1 THEN parts[2] ELSE None
    IN  IF typ = "C" /\ Len(parts) >= 4
        THEN <<[time |-> parts[1], type |-> "C", src |-> parts[3],
                dst |-> None, id |-> parts[4]]>>
        ELSE IF typ = "DE" /\ Len(parts) >= 6
        THEN IF parts[6] = "R"
             THEN <<[time |-> parts[1], type |-> "R", src |-> parts[3],
                     dst |-> parts[4], id |-> parts[5]]>>
             ELSE IF parts[6] = "D"
             THEN <<[time |-> parts[1], type |-> "D", src |-> parts[3],
                     dst |-> parts[4], id |-> parts[5]]>>
             ELSE <<>>
        ELSE <<>>

RECURSIVE ReadEvents(_)
ReadEvents(lines) ==
    IF lines = <<>> THEN <<>>
    ELSE ParseLine(Head(lines)) \o ReadEvents(Tail(lines))

\* nodes_all before the exclusion filter
AllSrcDst(evs) ==
    {evs[i].src : i \in {j \in DOMAIN evs : evs[j].src # None}}
    \cup {evs[i].dst : i \in {j \in DOMAIN evs : evs[j].dst # None}}

filtered_nodes(nodes) ==
    {n \in nodes : ~(EXCLUDE_BOX /\ is_box(n)) /\ ~(EXCLUDE_DO /\ is_do(n))}

\* a filter that keeps relayed receptions only
IsReception_R(e) == e.type = "R"

IsReception(e) == e.type = "R" \/ e.type = "D"

\* a filter that forgets the do* exclusion
rd_events_high_box(evs) ==
    SelectSeq(evs, LAMBDA e :
        /\ IsReception(e) /\ is_high_id(e.id)
        /\ ~(EXCLUDE_BOX /\ is_box(e.dst)))

rd_events_high(evs) ==
    SelectSeq(evs, LAMBDA e :
        /\ IsReception(e) /\ is_high_id(e.id)
        /\ ~(EXCLUDE_BOX /\ is_box(e.dst))
        /\ ~(EXCLUDE_DO /\ is_do(e.dst)))

mh_ids_plain(rd) == natural_sort_ids({rd[i].id : i \in DOMAIN rd})

\* e["time"] > start_time and e["time"] <= end_time
InHourPlain(t, h) == t > (h - 1) * BIN_SECONDS /\ t <= h * BIN_SECONDS

\* a loop that forgets the seen test
first_time_nodes_all(hour_receivers, already_seen_nodes) == hour_receivers

first_time_nodes(hour_receivers, already_seen_nodes) ==
    hour_receivers \ already_seen_nodes

\* a loop that keeps only the last hour's nodes
add_seen_reset(already_seen_nodes, first) == first

\* for node in first_time_nodes: already_seen_nodes.add(node)
add_seen(already_seen_nodes, first) == already_seen_nodes \cup first

RateOrZero(cnt, n) == IF n > 0 THEN Frac(cnt * 100, n) ELSE Zero

\* the while loop over h for one id, from hour h with already_seen_nodes
RECURSIVE PlainHours(_, _, _, _, _)
PlainHours(rd, mid, n, h, already_seen_nodes) ==
    IF h > TOTAL_HOURS THEN <<>>
    ELSE LET slice == SelectSeq(rd, LAMBDA e :
                          e.id = mid /\ InHourPlain(e.time, h))
             hour_receivers == {slice[i].dst : i \in DOMAIN slice}
             first == first_time_nodes(hour_receivers, already_seen_nodes)
             rate_hour == RateOrZero(Cardinality(first), n)
             seen == add_seen(already_seen_nodes, first)
             cum_rate == RateOrZero(Cardinality(seen), n)
         IN  <<Row("plain", mid, h, None, n, first, Round(rate_hour),
                   Round(cum_rate), seen, Picked(slice))>>
             \o PlainHours(rd, mid, n, h + 1, seen)

RECURSIVE PlainIds(_, _, _)
PlainIds(rd, ids, n) ==
    IF ids = <<>> THEN <<>>
    ELSE PlainHours(rd, Head(ids), n, 1, {}) \o PlainIds(rd, Tail(ids), n)

CountSeq(s, P(_)) == Len(SelectSeq(s, P))

L_total_plain(evs) == CountSeq(evs, LAMBDA e : e.type = "C" /\ is_low_id(e.id))

delivered_once_ids(evs) ==
    {evs[i].id : i \in {j \in DOMAIN evs :
                          evs[j].type = "D" /\ is_low_id(evs[j].id)}}

rate_total_plain(P, L) == IF L > 0 THEN Frac(P * 100, L) ELSE Zero

LowRow(fn, L, P, rate) == [fn |-> fn, L |-> L, P |-> P, rate |-> rate]

ReadLog ==
    /\ prog = "plain" /\ pc = "read"
    /\ events' = ReadEvents(log)
    /\ pc' = "nodes"
    /\ UNCHANGED <<prog, log, df, files, nodes_all, N, rows, low>>

BuildNodes ==
    /\ prog = "plain" /\ pc = "nodes"
    /\ nodes_all' = filtered_nodes(AllSrcDst(events))
    /\ N' = Cardinality(nodes_all')
    /\ pc' = "high"
    /\ UNCHANGED <<prog, log, events, df, files, rows, low>>

HighHourly ==
    /\ prog = "plain" /\ pc = "high"
    /\ LET rd == rd_events_high(events)
       IN  rows' = rows \o PlainIds(rd, mh_ids_plain(rd), N)
    /\ pc' = "low"
    /\ UNCHANGED <<prog, log, events, df, files, nodes_all, N, low>>

LowSummary ==
    /\ prog = "plain" /\ pc = "low"
    /\ LET L == L_total_plain(events)
           P == Cardinality(delivered_once_ids(events))
       IN  low' = Append(low, LowRow("plain", L, P,
                                     Round1(rate_total_plain(P, L))))
    /\ pc' = "done"
    /\ UNCHANGED <<prog, log, events, df, files, nodes_all, N, rows>>

(***************************************************************************)
(* prog = "pandas": src/RESULT.py, "Result Output.py" (lines 218-493)      *)
(***************************************************************************)
DfRow(t, typ, src, dst, mid, st) ==
    [Time |-> t, Type |-> typ, Src |-> src, Dst |-> dst, Id |-> mid,
     Status |-> st]

\* a parser that skips the connection lines
ParseRow_noconn(parts) ==
    LET etype == IF Len(parts) > 1 THEN parts[2] ELSE None
    IN  IF etype = "C" /\ Len(parts) >= 4
        THEN <<DfRow(parts[1], "C", parts[3], None, parts[4], None)>>
        ELSE IF etype = "S" /\ Len(parts) >= 5
        THEN <<DfRow(parts[1], "S", parts[3], parts[4], parts[5], None)>>
        ELSE IF etype = "DE" /\ Len(parts) >= 6
        THEN <<DfRow(parts[1], "DE", parts[3], parts[4], parts[5], parts[6])>>
        ELSE <<>>

\* one line of parse_eventlogreport: the rows it appends
ParseRow(parts) ==
    LET etype == IF Len(parts) > 1 THEN parts[2] ELSE None
    IN  IF etype = "CONN" /\ Len(parts) >= 5
        THEN <<DfRow(parts[1], "CONN", parts[3], parts[4], None, parts[5])>>
        ELSE IF etype = "C" /\ Len(parts) >= 4
        THEN <<DfRow(parts[1], "C", parts[3], None, parts[4], None)>>
        ELSE IF etype = "S" /\ Len(parts) >= 5
        THEN <<DfRow(parts[1], "S", parts[3], parts[4], parts[5], None)>>
        ELSE IF etype = "DE" /\ Len(parts) >= 6
        THEN <<DfRow(parts[1], "DE", parts[3], parts[4], parts[5], parts[6])>>
        ELSE <<>>

RECURSIVE parse_eventlogreport(_)
parse_eventlogreport(lines) ==
    IF lines = <<>> THEN <<>>
    ELSE ParseRow(Head(lines)) \o parse_eventlogreport(Tail(lines))

compute_denominator_nodes(d, exclude_box) ==
    LET nodes == ({d[i].Src : i \in {j \in DOMAIN d : d[j].Src # None}}
                  \cup {d[i].Dst : i \in {j \in DOMAIN d : d[j].Dst # None}})
                 \ {""}
    IN  IF exclude_box THEN {n \in nodes : ~BOX_RE(n)} ELSE nodes

IsStatusR(r) == r.Status = "R"

high_R(d) ==
    LET sel == SelectSeq(d, LAMBDA r :
                   /\ r.Type = "DE"
                   /\ r.Id # None /\ ID_HIGH_RE(r.Id)
                   /\ IsStatusR(r))
    IN  IF EXCLUDE_BOX_IN_DENOM
        THEN SelectSeq(sel, LAMBDA r : ~BOX_RE(r.Dst))
        ELSE sel

mh_ids_R(hr) == natural_sort_ids({hr[i].Id : i \in DOMAIN hr})

\* (sub["Time"] > start) & (sub["Time"] <= end), hourly_bins
InHourR(t, h) == t > (h - 1) * BIN_SECONDS /\ t <= h * BIN_SECONDS

\* a rate that is 0 for an empty denominator
RateOrNaN_zero(cnt, n) == IF n > 0 THEN Frac(cnt * 100, n) ELSE Zero

RateOrNaN(cnt, n) == IF n > 0 THEN Frac(cnt * 100, n) ELSE NaN

PickedR(s) == {[time |-> s[i].Time, dst |-> s[i].Dst] : i \in DOMAIN s}

\* the loop over hourly_bins for one id (and one cluster, or None)
RECURSIVE RHours(_, _, _, _, _, _, _)
RHours(fn, sub, mid, c, n, h, seen) ==
    IF h > TOTAL_HOURS THEN <<>>
    ELSE LET h_slice == SelectSeq(sub, LAMBDA r : InHourR(r.Time, h))
             dsts == {h_slice[i].Dst : i \in DOMAIN h_slice}
             rate_hour == RateOrNaN(Cardinality(dsts), n)
             seen2 == seen \cup dsts
             cum_rate == RateOrNaN(Cardinality(seen2), n)
         IN  <<Row(fn, mid, h, c, n, dsts, rate_hour, cum_rate, seen2,
                   PickedR(h_slice))>>
             \o RHours(fn, sub, mid, c, n, h + 1, seen2)

RECURSIVE RIds(_, _, _, _, _)
RIds(fn, hr, ids, c, n) ==
    IF ids = <<>> THEN <<>>
    ELSE RHours(fn, SelectSeq(hr, LAMBDA r : r.Id = Head(ids)), Head(ids),
                c, n, 1, {})
         \o RIds(fn, hr, Tail(ids), c, n)

\* records.append([..., round(rate_hour), round(cum_rate)])
RoundRow(r) == [r EXCEPT !.rate_hour = Round(r.rate_hour),
                         !.cum_rate = Round(r.cum_rate)]

cluster_nodes(nodes, c) == {n \in nodes : CLUSTER_REGEX(c, n)}

RECURSIVE RClusters(_, _, _)
RClusters(hr, cs, nodes) ==
    IF cs = <<>> THEN <<>>
    ELSE LET cnodes == cluster_nodes(nodes, Head(cs))
             sub_cluster == SelectSeq(hr, LAMBDA r : r.Dst \in cnodes)
         IN  RIds("cluster", sub_cluster, mh_ids_R(hr), Head(cs),
                  Cardinality(cnodes))
             \o RClusters(hr, Tail(cs), nodes)

low_df(d) == SelectSeq(d, LAMBDA r : r.Id # None /\ ID_LOW_RE(r.Id))

L_total_df(d) == CountSeq(low_df(d), LAMBDA r : r.Type = "C")

delivered_ids(d) ==
    LET l == low_df(d)
    IN  {l[i].Id : i \in {j \in DOMAIN l :
                            l[j].Type = "DE" /\ l[j].Status = "D"}}

\* an aggregate rate that is 0 for no created message
arrival_rate_percent_zero(P, L) == IF L > 0 THEN Frac(P * 100, L) ELSE Zero

arrival_rate_percent(P, L) == IF L > 0 THEN Frac(P * 100, L) ELSE NaN

ParseEventLogReport ==
    /\ prog = "pandas" /\ pc = "parse"
    /\ df' = parse_eventlogreport(log)
    /\ pc' = "denominator"
    /\ UNCHANGED <<prog, log, events, files, nodes_all, N, rows, low>>

ComputeDenominatorNodes ==
    /\ prog = "pandas" /\ pc = "denominator"
    /\ nodes_all' = compute_denominator_nodes(df, EXCLUDE_BOX_IN_DENOM)
    /\ pc' = "rbased"
    /\ UNCHANGED <<prog, log, events, df, files, N, rows, low>>

\* A log with no recognised line gives a DataFrame without columns, and
\* df["Type"] raises KeyError; round(float("nan")) raises ValueError.  Either
\* way the run stops with no table.
CalcHighHourlyRBased ==
    /\ prog = "pandas" /\ pc = "rbased"
    /\ N' = Cardinality(nodes_all)
    /\ LET hr == high_R(df)
           recs == RIds("rbased", hr, mh_ids_R(hr), None, N')
       IN  IF df = <<>>
           THEN pc' = "KeyError" /\ rows' = rows
           ELSE IF \E i \in DOMAIN recs :
                 IsNaN(recs[i].rate_hour) \/ IsNaN(recs[i].cum_rate)
           THEN pc' = "ValueError" /\ rows' = rows
           ELSE /\ pc' = "by_cluster"
                /\ rows' = rows \o [i \in DOMAIN recs |-> RoundRow(recs[i])]
    /\ UNCHANGED <<prog, log, events, df, files, nodes_all, low>>

CalcHighHourlyRBasedByCluster ==
    /\ prog = "pandas" /\ pc = "by_cluster"
    /\ rows' = rows \o RClusters(high_R(df), ClusterNames, nodes_all)
    /\ pc' = "low"
    /\ UNCHANGED <<prog, log, events, df, files, nodes_all, N, low>>

CalcLowArrivalRateFirstDelivery ==
    /\ prog = "pandas" /\ pc = "low"
    /\ LET L == L_total_df(df)
           P == Cardinality(delivered_ids(df))
       IN  low' = Append(low, LowRow("pandas", L, P, arrival_rate_percent(P, L)))
    /\ pc' = "done"
    /\ UNCHANGED <<prog, log, events, df, files, nodes_all, N, rows>>

(***************************************************************************)
(* prog = "sainaosi": src/output/sainaosi.py                               *)
(***************************************************************************)
\* time_range[index]: (i, i + 3600) for i in range(0, 43200, 3600)
time_range(index) ==
    [start_time |-> (index - 1) * BIN_SECONDS, end_time |-> index * BIN_SECONDS]

\* start_time <= float(entry[0]) < end_time
InRange6(t, index) ==
    time_range(index).start_time <= t /\ t < time_range(index).end_time

\* data.sort(key=time): stable insertion of one entry
RECURSIVE InsertByTime(_, _)
InsertByTime(sorted, e) ==
    IF sorted = <<>> THEN <<e>>
    ELSE IF Head(sorted)[1] <= e[1]
         THEN <<Head(sorted)>> \o InsertByTime(Tail(sorted), e)
         ELSE <<e>> \o sorted

RECURSIVE SortByTime(_)
SortByTime(lines) ==
    IF lines = <<>> THEN <<>>
    ELSE InsertByTime(SortByTime(SubSeq(lines, 1, Len(lines) - 1)),
                      lines[Len(lines)])

CsvRow(parts) ==
    [Time |-> parts[1], Type |-> parts[2], Host |-> parts[3],
     Tohost |-> parts[4], Id |-> parts[5], Status |-> parts[6]]

\* the files process_and_save writes, in index order: empty groups write none
RECURSIVE SaveFiles(_, _)
SaveFiles(data, index) ==
    IF index > TOTAL_HOURS THEN <<>>
    ELSE LET grouped_data == SelectSeq(data, LAMBDA e : InRange6(e[1], index))
         IN  (IF grouped_data # <<>>
              THEN <<[index |-> index,
                      data |-> [i \in DOMAIN grouped_data |->
                                   CsvRow(grouped_data[i])]]>>
              ELSE <<>>)
             \o SaveFiles(data, index + 1)

process_and_save(lines) ==
    SaveFiles(SortByTime(SelectSeq(lines, LAMBDA parts : Len(parts) >= 6)), 1)

\* f"{id_prefix}{id_index}" with id_prefix = "M_Hp"
target_id(id_index) == <<"M_Hp1", "M_Hp2", "M_Hp3">>[id_index]

total_nodes(data) ==
    Cardinality({data[i].Host : i \in DOMAIN data}
                \cup {data[i].Tohost : i \in DOMAIN data})

\* (data['Id'] == target_id) & (data['Status'] == 'R')
IsTargetR(r, tid) == r.Id = tid /\ r.Status = "R"

PickedCsv(s) == {[time |-> s[i].Time, dst |-> s[i].Tohost] : i \in DOMAIN s}

\* the loop over file_list for one target id
RECURSIVE HighFiles(_, _, _, _)
HighFiles(fl, tid, seen_tohosts, cumulative_high) ==
    IF fl = <<>> THEN <<>>
    ELSE LET data == Head(fl).data
             total == total_nodes(data)
             picked == SelectSeq(data, LAMBDA r : IsTargetR(r, tid))
             new == {picked[i].Tohost : i \in DOMAIN picked} \ seen_tohosts
             seen == seen_tohosts \cup new
             High == RateOrZero(Cardinality(new), total)
             cum == AddRate(cumulative_high, High)
         IN  <<Row("calculate_high", tid, Head(fl).index, None, total, new,
                   High, cum, seen, PickedCsv(picked))>>
             \o HighFiles(Tail(fl), tid, seen, cum)

RECURSIVE calculate_high(_, _)
calculate_high(fl, id_index) ==
    IF id_index > MAX_ID THEN <<>>
    ELSE HighFiles(fl, target_id(id_index), {}, Zero)
         \o calculate_high(fl, id_index + 1)

\* data['Id'].str.startswith('M_L')
StartsWithML(mid) == mid \in {"M_L1", "M_L2"}

ReceivedPerNewHost == 2

\* the loop over file_list of calculate_low
RECURSIVE LowFiles(_, _)
LowFiles(fl, seen_tohosts) ==
    IF fl = <<>> THEN <<>>
    ELSE LET ml_data == SelectSeq(Head(fl).data, LAMBDA r : StartsWithML(r.Id))
             ml_created == Len(ml_data)
             d == SelectSeq(ml_data, LAMBDA r : r.Status = "D")
             new == {d[i].Tohost : i \in DOMAIN d} \ seen_tohosts
             ml_received == ReceivedPerNewHost * Cardinality(new)
         IN  <<LowRow("calculate_low", ml_created, ml_received,
                      RateOrZero(ml_received, ml_created))>>
             \o LowFiles(Tail(fl), seen_tohosts \cup new)

ProcessAndSave ==
    /\ prog = "sainaosi" /\ pc = "split"
    /\ files' = process_and_save(log)
    /\ pc' = "calc_high"
    /\ UNCHANGED <<prog, log, events, df, nodes_all, N, rows, low>>

CalculateHigh ==
    /\ prog = "sainaosi" /\ pc = "calc_high"
    /\ rows' = rows \o calculate_high(files, 1)
    /\ pc' = "calc_low"
    /\ UNCHANGED <<prog, log, events, df, files, nodes_all, N, low>>

CalculateLow ==
    /\ prog = "sainaosi" /\ pc = "calc_low"
    /\ low' = low \o LowFiles(files, {})
    /\ pc' = "done"
    /\ UNCHANGED <<prog, log, events, df, files, nodes_all, N, rows>>

(***************************************************************************)
(* Input logs.  A log holds at most MaxLog distinct lines of one family;   *)
(* no script depends on the order of the lines of its input.               *)
(***************************************************************************)
Times == 0 .. (TOTAL_HOURS * BIN_SECONDS)
MidTimes == {BIN_SECONDS - 1, 2 * BIN_SECONDS - 1}

DELines(ts, srcs, dsts, ids, sts) ==
    {l \in {<<t, "DE", a, b, i, st>> :
                t \in ts, a \in srcs, b \in dsts, i \in ids, st \in sts} :
        l[3] # l[4]}

TimingLines == DELines(Times, {"p1", "q1"}, {"p1", "q1"}, {"M_Hp1"}, {"R", "D"})

NodeLines ==
    DELines(MidTimes, {"p1", "q1"}, {"p1", "q1", "box1", "do1"}, {"M_Hp1"}, {"R"})

IdLines ==
    DELines(MidTimes, {"p1", "q1"}, {"p1", "q1"}, {"M_Hp1", "M_Hp2"}, {"R"})

LowLines ==
    {<<t, "C", "p1", i>> : t \in MidTimes, i \in {"M_L1", "M_L2"}}
    \cup DELines(MidTimes, {"p1", "q1"}, {"p1", "q1"}, {"M_L1", "M_L2"}, {"D", "R"})
    \cup {<<1, "DE", "p1", "q1", "M_L1", "A">>}

OtherLines ==
    {<<1, "CONN", a, b, "up">> : a \in {"p1", "box1"}, b \in {"q1", "do1"}}
    \cup {<<1, "S", "p1", "q1", "M_Hp1">>, <<1, "S", "q1", "box1", "M_L1">>,
          <<1, "C", "do1", "M_Hp1">>, <<1, "DE", "q1", "p1", "M_Hp1", "R">>,
          <<1, "DE", "q1", "p1">>, <<1, "X", "p1", "q1", "M_Hp1", "R">>}

Families == {TimingLines, NodeLines, IdLines, LowLines, OtherLines}

RECURSIVE SubsetsUpTo(_, _)
SubsetsUpTo(S, k) ==
    IF k = 0 THEN {{}}
    ELSE LET prev == SubsetsUpTo(S, k - 1)
         IN  prev \cup {T \cup {x} : T \in prev, x \in S}

RECURSIVE LinesOf(_)
LinesOf(S) ==
    IF S = {} THEN <<>>
    ELSE LET x == CHOOSE y \in S : TRUE
         IN  Append(LinesOf(S \ {x}), x)

Logs == UNION {{LinesOf(S) : S \in SubsetsUpTo(F, MaxLog)} : F \in Families}

TypeOK ==
    /\ prog \in {"plain", "pandas", "sainaosi"}
    /\ Len(log) <= MaxLog
    /\ N \in Nat

Init ==
    /\ prog \in {"plain", "pandas", "sainaosi"}
    /\ log \in Logs
    /\ pc = CASE prog = "plain" -> "read"
              [] prog = "pandas" -> "parse"
              [] prog = "sainaosi" -> "split"
    /\ events = <<>>
    /\ df = <<>>
    /\ files = <<>>
    /\ nodes_all = {}
    /\ N = 0
    /\ rows = <<>>
    /\ low = <<>>

Next ==
    \/ ReadLog
    \/ BuildNodes
    \/ HighHourly
    \/ LowSummary
    \/ ParseEventLogReport
    \/ ComputeDenominatorNodes
    \/ CalcHighHourlyRBased
    \/ CalcHighHourlyRBasedByCluster
    \/ CalcLowArrivalRateFirstDelivery
    \/ ProcessAndSave
    \/ CalculateHigh
    \/ CalculateLow

Spec == Init /\ [][Next]_vars

(***************************************************************************)
(* Claims                                                                  *)
(***************************************************************************)
SameSeries(a, b) == a.fn = b.fn /\ a.Cluster = b.Cluster /\ a.Id = b.Id

Series(r) == SelectSeq(rows, LAMBDA x : SameSeries(x, r))

RECURSIVE SumHour(_)
SumHour(s) == IF s = <<>> THEN 0 ELSE Head(s).n_hour + SumHour(Tail(s))

FirstTimeFns == {"plain", "calculate_high"}
PerHourFns == {"rbased", "cluster"}

SingleCounted(fns) ==
    \A i, j \in DOMAIN rows :
        (/\ rows[i].fn \in fns /\ SameSeries(rows[i], rows[j])
         /\ rows[i].hour_index < rows[j].hour_index)
        => rows[j].counted \cap rows[i].reached = {}

\* C1 as stated: in all four hourly computations a node is counted in the
\* new-receiver count of at most one hour bin of an id, the count of hour h
\* holding only nodes that were not reached before hour h.
C1_SingleCountingEverywhere ==
    SingleCounted(FirstTimeFns \cup PerHourFns)

\* C1 amended: the plain loop and calculate_high count a node in at most one
\* hour bin of an id, and only if it was not reached before that bin;
\* calc_high_hourly_R_based and its per-cluster variant count in hour h every
\* distinct destination that receives in hour h, reached before or not.
C1_SingleCounting ==
    /\ SingleCounted(FirstTimeFns)
    /\ \A i \in DOMAIN rows :
          /\ rows[i].fn \in FirstTimeFns =>
                rows[i].counted \subseteq {x.dst : x \in rows[i].sel}
          /\ rows[i].fn \in PerHourFns =>
                rows[i].counted = {x.dst : x \in rows[i].sel}

\* a plain-loop bin that selected an already reached destination next to a
\* new one, and counted the new one alone
C1_Witness ==
    \E i, j \in DOMAIN rows :
        /\ rows[i].fn = "plain" /\ SameSeries(rows[i], rows[j])
        /\ rows[i].hour_index < rows[j].hour_index
        /\ \E x \in rows[j].sel : x.dst \in rows[i].reached
        /\ rows[j].n_hour = 1

Conserved(fns) ==
    \A i \in DOMAIN rows :
        rows[i].fn \in fns =>
            LET s == Series(rows[i])
            IN  SumHour(s) = Cardinality(s[Len(s)].reached)

\* C2 as stated: for every id (and cluster) the hourly new-receiver counts of
\* the plain loop, calc_high_hourly_R_based and its per-cluster variant add
\* up to the size of the reached set after the last bin.
C2_ConservationEverywhere == Conserved({"plain"} \cup PerHourFns)

\* C2 amended: in the plain loop the hourly counts add up to the size of the
\* final reached set; in calc_high_hourly_R_based and its per-cluster variant
\* they add up to at least that size, and to more when a node receives in two
\* bins.
C2_Conservation ==
    /\ Conserved({"plain"})
    /\ \A i \in DOMAIN rows :
          rows[i].fn \in PerHourFns =>
             LET s == Series(rows[i])
                 last == s[Len(s)].reached
             IN  /\ SumHour(s) >= Cardinality(last)
                 /\ (SumHour(s) > Cardinality(last)) <=>
                      \E a, b \in DOMAIN s :
                          a # b /\ s[a].counted \cap s[b].counted # {}

\* a finished plain series with two non-empty bins
C2_Witness ==
    \E i, j \in DOMAIN rows :
        /\ rows[i].fn = "plain" /\ SameSeries(rows[i], rows[j])
        /\ rows[i].hour_index < rows[j].hour_index
        /\ rows[i].n_hour > 0 /\ rows[j].n_hour > 0
        /\ rows[j].hour_index = TOTAL_HOURS

HighFns == {"plain", "rbased", "cluster", "calculate_high"}

\* C3: whenever the denominator is positive, every emitted hourly rate and
\* every emitted cumulative rate of a high-priority table lies in [0, 100].
C3_RatesInRange ==
    \A i \in DOMAIN rows :
        (rows[i].fn \in HighFns /\ rows[i].N > 0)
        => InRange(rows[i].rate_hour) /\ InRange(rows[i].cum_rate)

SameComputation(a, b) == a.fn = b.fn /\ a.Cluster = b.Cluster

\* the value the table shows for an exact rate: rounded in the plain loop and
\* in calc_high_hourly_R_based, as computed elsewhere
Shown(fn, r) == IF fn \in {"plain", "rbased"} THEN Round(r) ELSE r

\* C4: one computation uses one denominator N in every hour bin of every id,
\* and the cumulative rate of hour h is |reached after h| / N * 100, not a
\* running sum of hourly rates.
C4_FixedDenominator ==
    /\ \A i, j \in DOMAIN rows :
          SameComputation(rows[i], rows[j]) => rows[i].N = rows[j].N
    /\ \A i \in DOMAIN rows :
          rows[i].N > 0 =>
             SameRate(rows[i].cum_rate,
                      Shown(rows[i].fn,
                            Frac(Cardinality(rows[i].reached) * 100, rows[i].N)))

\* the low-priority ids of the input that have a DE line of status D
DeliveredLowIdsOfLog ==
    {log[i][5] : i \in {j \in DOMAIN log :
                          /\ Len(log[j]) >= 6 /\ log[j][2] = "DE"
                          /\ log[j][6] = "D" /\ is_low_id(log[j][5])}}

RECURSIVE SumP(_)
SumP(s) == IF s = <<>> THEN 0 ELSE Head(s).P + SumP(Tail(s))

\* C5: the first-delivered count of the low-priority messages is the number of
\* distinct low-priority ids with at least one delivery of status D, so a
\* message delivered k >= 1 times contributes exactly 1.
C5_FirstDeliveryOnce ==
    pc = "done" => SumP(low) = Cardinality(DeliveredLowIdsOfLog)

ZeroDenominatorRows == {i \in DOMAIN rows : rows[i].N = 0}

\* C6 as stated: with a zero denominator (N = 0 overall or an empty cluster)
\* every emitted hourly and cumulative rate is exactly 0, and no error or NaN
\* is produced.
C6_ZeroRateEverywhere ==
    /\ pc # "ValueError"
    /\ \A i \in ZeroDenominatorRows :
          IsZero(rows[i].rate_hour) /\ IsZero(rows[i].cum_rate)

\* C6 amended: a row with a zero denominator is emitted only for a cluster
\* with no member node (with N = 0 overall no table has a row); its hourly
\* and cumulative rates are NaN, not 0, and no division or rounding error is
\* raised.
C6_ZeroDenominator ==
    /\ pc # "ValueError"
    /\ \A i \in ZeroDenominatorRows :
          /\ rows[i].fn = "cluster"
          /\ cluster_nodes(nodes_all, rows[i].Cluster) = {}
          /\ IsNaN(rows[i].rate_hour) /\ IsNaN(rows[i].cum_rate)

\* the per-cluster table holds an empty cluster next to one with a member
C6_Witness ==
    \E i, j \in DOMAIN rows :
        /\ rows[i].fn = "cluster" /\ rows[i].N = 0
        /\ rows[j].fn = "cluster" /\ rows[j].N > 0 /\ rows[j].n_hour > 0

SummaryRows == {i \in DOMAIN low : low[i].fn \in {"plain", "pandas"}}

ExactRate(i) == Frac(low[i].P * 100, low[i].L)

\* C7 as stated: the aggregate low-priority rate is P / L * 100 when L > 0 and
\* is NaN, not a number, when L = 0.
C7_NaNWhenNothingCreated ==
    \A i \in SummaryRows :
        IF low[i].L > 0
        THEN SameRate(low[i].rate,
                      IF low[i].fn = "plain" THEN Round1(ExactRate(i))
                      ELSE ExactRate(i))
        ELSE IsNaN(low[i].rate)

\* C7 amended: the aggregate rate is P / L * 100 when L > 0 (shown to one
\* decimal by the plain script); when L = 0 it is NaN in
\* calc_low_arrival_rate_first_delivery and 0.0 in the plain script; neither
\* raises a division error.
C7_AggregateRate ==
    \A i \in SummaryRows :
        IF low[i].L > 0
        THEN SameRate(low[i].rate,
                      IF low[i].fn = "plain" THEN Round1(ExactRate(i))
                      ELSE ExactRate(i))
        ELSE IF low[i].fn = "pandas" THEN IsNaN(low[i].rate)
             ELSE IsZero(low[i].rate)

\* calc_low_arrival_rate_first_delivery ran on a log with a delivered
\* low-priority message and no created one
C7_Witness ==
    \E i \in SummaryRows :
        low[i].fn = "pandas" /\ low[i].L = 0 /\ low[i].P > 0

\* the DE lines of the input with a high-priority id and status st
HighLines(st) ==
    {log[i] : i \in {j \in DOMAIN log :
                       /\ Len(log[j]) >= 6 /\ log[j][2] = "DE"
                       /\ log[j][6] = st /\ is_high_id(log[j][5])}}

\* the main hourly table of the running script, and whether it is written
MainFn == CASE prog = "plain" -> "plain"
            [] prog = "pandas" -> "rbased"
            [] prog = "sainaosi" -> "calculate_high"

TableWritten ==
    \/ prog = "plain" /\ pc \in {"low", "done"}
    \/ prog = "pandas" /\ pc \in {"by_cluster", "low", "done"}
    \/ prog = "sainaosi" /\ pc \in {"calc_low", "done"}

InBinOf(fn, t, h) ==
    IF fn = "calculate_high" THEN InRange6(t, h) ELSE InHourPlain(t, h)

ExcludedFor(fn, n) ==
    CASE fn = "plain" -> is_box(n) \/ is_do(n)
      [] fn = "rbased" -> BOX_RE(n)
      [] OTHER -> FALSE

\* the line l was taken as a reception by table fn: its bin selected it, and
\* its destination is reached, and counted there unless reached earlier
TakenAsReception(fn, l) ==
    \E i \in DOMAIN rows :
        /\ rows[i].fn = fn /\ rows[i].Id = l[5]
        /\ InBinOf(fn, l[1], rows[i].hour_index)
        /\ [time |-> l[1], dst |-> l[4]] \in rows[i].sel
        /\ l[4] \in rows[i].reached
        /\ \/ l[4] \in rows[i].counted
           \/ \E j \in DOMAIN rows :
                 /\ SameSeries(rows[i], rows[j])
                 /\ rows[j].hour_index < rows[i].hour_index
                 /\ l[4] \in rows[j].reached

DeliveredTaken(fn) ==
    \A l \in HighLines("D") :
        (/\ ~ExcludedFor(fn, l[4])
         /\ \E h \in 1 .. TOTAL_HOURS : InBinOf(fn, l[1], h))
        => TakenAsReception(fn, l)

\* C8 as stated: the hourly high-priority aggregator takes a delivery of
\* status D, like one of status R, as a reception: it puts the destination
\* in the reached set and in the count of the hour bin of its time.
C8_DeliveredCountsEverywhere == TableWritten => DeliveredTaken(MainFn)

\* the lines of status R a table can draw from: DE lines, and for
\* calculate_high any line of six tokens, its type not being looked at
RelayedLines(fn) ==
    IF fn = "calculate_high"
    THEN {log[i] : i \in {j \in DOMAIN log :
                            Len(log[j]) >= 6 /\ log[j][6] = "R"}}
    ELSE HighLines("R")

\* every reception a table selected is a line of status R
OnlyRelayed(fn) ==
    \A i \in DOMAIN rows :
        rows[i].fn = fn =>
            /\ \A x \in rows[i].sel :
                  \E l \in RelayedLines(fn) :
                      l[1] = x.time /\ l[4] = x.dst /\ l[5] = rows[i].Id
            /\ rows[i].reached \subseteq
                  {l[4] : l \in {m \in RelayedLines(fn) : m[5] = rows[i].Id}}

\* C8 amended: the plain loop takes deliveries of status R and of status D as
\* receptions; calc_high_hourly_R_based, its per-cluster variant and
\* calculate_high take status R only, so a destination that only ever got
\* status D is never reached in their tables.
C8_DeliveredCounts ==
    /\ (prog = "plain" /\ TableWritten) => DeliveredTaken("plain")
    /\ OnlyRelayed("rbased") /\ OnlyRelayed("cluster")
    /\ OnlyRelayed("calculate_high")

\* the plain loop counted a destination that got the id with status D only
C8_Witness ==
    \E i \in DOMAIN rows :
        /\ rows[i].fn = "plain"
        /\ \E l \in HighLines("D") :
              /\ l[5] = rows[i].Id /\ l[4] \in rows[i].counted
              /\ \A m \in HighLines("R") : ~(m[5] = l[5] /\ m[4] = l[4])

\* C9: every node in a reached set is a member of the node universe the
\* denominator counts (the cluster's members in the per-cluster table), and
\* an excluded node is in no reached set, no count and not in N.
C9_ReachedWithinUniverse ==
    /\ \A i \in DOMAIN rows :
          /\ rows[i].fn \in {"plain", "rbased"} =>
                /\ rows[i].reached \subseteq nodes_all
                /\ rows[i].counted \subseteq nodes_all
                /\ rows[i].N = Cardinality(nodes_all)
          /\ rows[i].fn = "cluster" =>
                /\ rows[i].reached \subseteq cluster_nodes(nodes_all, rows[i].Cluster)
                /\ rows[i].counted \subseteq cluster_nodes(nodes_all, rows[i].Cluster)
                /\ rows[i].N = Cardinality(cluster_nodes(nodes_all, rows[i].Cluster))
    /\ \A n \in nodes_all : ~ExcludedFor(MainFn, n)
    /\ N <= Cardinality({n \in NodeNames : ~ExcludedFor(MainFn, n)})

\* a table was written for an id that was also relayed to an excluded node
C9_Witness ==
    \E i \in DOMAIN rows :
        /\ rows[i].fn \in {"plain", "rbased"} /\ rows[i].n_hour > 0
        /\ \E l \in HighLines("R") :
              l[5] = rows[i].Id /\ ExcludedFor(rows[i].fn, l[4])

\* the receptions the main table of the running script draws from
Qualifying ==
    {l \in HighLines("R") \cup (IF prog = "plain" THEN HighLines("D") ELSE {}) :
        ~ExcludedFor(MainFn, l[4]) /\ l[1] \in 0 .. (TOTAL_HOURS * BIN_SECONDS)}

BinsSelecting(l) ==
    {rows[i].hour_index : i \in {j \in DOMAIN rows :
        /\ rows[j].fn = MainFn /\ rows[j].Id = l[5]
        /\ [time |-> l[1], dst |-> l[4]] \in rows[j].sel}}

\* C10: the bins are contiguous and disjoint from 0 on: an event with time in
\* [0, H*W] is selected in exactly one hour bin, and one at h*W in bin h.
C10_EveryEventInOneBin ==
    (TableWritten /\ prog \in {"plain", "sainaosi"}) =>
        \A l \in Qualifying :
            /\ Cardinality(BinsSelecting(l)) = 1
            /\ \A h \in 1 .. TOTAL_HOURS :
                  l[1] = h * BIN_SECONDS => BinsSelecting(l) = {h}

\* the lines of the input of type typ with at least n tokens
LinesOfType(typ, n) ==
    {log[i] : i \in {j \in DOMAIN log : Len(log[j]) >= n /\ log[j][2] = typ}}

CreateLines == LinesOfType("C", 4)
SendLines == LinesOfType("S", 5)
ConnectionLines == LinesOfType("CONN", 5)
DeliveryLines == LinesOfType("DE", 6)
DeliveryLinesRD == {l \in DeliveryLines : l[6] \in {"R", "D"}}

\* the src of the lines in withSrc and the src and dst of those in withDst
NodesNamed(withSrc, withDst) ==
    {l[3] : l \in withSrc \cup withDst} \cup {l[4] : l \in withDst}

UniverseBuilt ==
    \/ prog = "plain" /\ pc \in {"high", "low", "done"}
    \/ prog = "pandas" /\ pc \notin {"parse", "denominator"}

Kept(nodes) == {n \in nodes : ~ExcludedFor(MainFn, n)}

\* C11 as stated: the node universe holds every src and dst of every Create,
\* Send, Connection and DE line that the exclusion flags do not exclude, so a
\* node that appears only in CONN or S lines is counted in N.
C11_UniverseOfAllLines ==
    UniverseBuilt =>
        Kept(NodesNamed(CreateLines,
                        SendLines \cup ConnectionLines \cup DeliveryLinesRD))
            \subseteq nodes_all

\* C11 amended: in "Result Output.py" the universe is every src and dst of
\* every CONN, C, S and DE line (of any status) whose name is not box<digits>;
\* in the plain script it is every src of a C line and every src and dst of a
\* DE line of status R or D, not named box* or do*: a node that appears only
\* in CONN or S lines, or in DE lines of another status, is not in it and is
\* not counted in N.
C11_Universe ==
    /\ (prog = "pandas" /\ UniverseBuilt) =>
          nodes_all = Kept(NodesNamed(CreateLines,
                             SendLines \cup ConnectionLines \cup DeliveryLines))
    /\ (prog = "plain" /\ UniverseBuilt) =>
          /\ nodes_all = Kept(NodesNamed(CreateLines, DeliveryLinesRD))
          /\ N = Cardinality(nodes_all)
    /\ \A i \in DOMAIN rows :
          rows[i].fn \in {"plain", "rbased"} => rows[i].N = Cardinality(nodes_all)

\* "Result Output.py" built a universe with a node that only CONN or S lines
\* name
C11_Witness ==
    /\ prog = "pandas" /\ UniverseBuilt
    /\ \E n \in nodes_all :
          /\ n \in NodesNamed({}, SendLines \cup ConnectionLines)
          /\ n \notin NodesNamed(CreateLines, DeliveryLines)

\* C12: the low-priority first-delivered count never exceeds the created
\* count, also for an id delivered without a Create line, so the aggregate
\* arrival rate lies in [0, 100] whenever something was created.
C12_DeliveredWithinCreated ==
    \A i \in DOMAIN low :
        /\ low[i].P <= low[i].L
        /\ low[i].L > 0 => InRange(low[i].rate)

====
